---- MODULE Spec2Model ----
(***************************************************************************)
(* rssant_harbor/actors/rss.py: the harbor_rss actors that save what the   *)
(* feed workers report (FeedCreation status and result, feed updates,      *)
(* story content, story images) and the periodic clean_feed_creation sweep.*)
(*                                                                         *)
(* Every actor call is one handler invocation.  A handler runs its body    *)
(* inside `with transaction.atomic()`: its statements read the committed   *)
(* rows plus its own uncommitted writes (READ COMMITTED, Django's default),*)
(* its writes are buffered in handler[h].w and reach the tables only at    *)
(* commit, and an exception anywhere inside the block discards them.       *)
(* Several handlers may be in flight at once.                              *)
(***************************************************************************)
EXTENDS Integers, Sequences, FiniteSets, TLC

VARIABLES
    feed_creation,   \* table FeedCreation: set of rows
    feed,            \* table Feed
    user_feed,       \* table UserFeed
    feed_url_map,    \* table FeedUrlMap
    story,           \* table Story
    seq,             \* the tables' id sequences (never rolled back)
    handler,         \* the handler invocations: position, arguments, locals
    outbox,          \* the messages sent with ctx.send, in order
    delivered,       \* indexes of outbox already handed to harbor_rss.update_feed
    sweep,           \* the do_clean_feed_creation invocation: position, locals
    now              \* timezone.now(), in seconds

vars == <<feed_creation, feed, user_feed, feed_url_map, story, seq, handler,
          outbox, delivered, sweep, now>>

tables == <<feed_creation, feed, user_feed, feed_url_map, story>>

----------------------------------------------------------------------------
(* Bounds of the model *)

MaxHandlers == 2        \* handler invocations in one behaviour, all may overlap
MaxSweeps == 2          \* sweeps in one behaviour
MaxTicks == 1           \* clock advances in one behaviour

Handlers == 1..MaxHandlers

----------------------------------------------------------------------------
(* Values *)

None == "<None>"

PENDING == "pending"
UPDATING == "updating"
READY == "ready"
ERROR == "error"
FeedStatus == {PENDING, UPDATING, READY, ERROR}

NOT_FOUND == "NOT_FOUND"

UrlA == "http://a/feed.xml"
UrlB == "http://b/feed.xml"

MessageSep == "\n\n"

RECURSIVE Join(_, _)
(* sep.join(parts), a string being the sequence of its pieces *)
Join(sep, parts) ==
    IF parts = <<>> THEN <<>>
    ELSE IF Len(parts) = 1 THEN <<parts[1]>>
    ELSE <<parts[1], sep>> \o Join(sep, Tail(parts))

----------------------------------------------------------------------------
(* Rows and the transaction's view of a table *)

Ids(rows) == {r.id : r \in rows}

HasRow(rows, pk) == \E r \in rows : r.id = pk

GetByPk(rows, pk) == CHOOSE r \in rows : r.id = pk

(* what a statement of a transaction with buffered writes w reads *)
Visible(rows, w) == {r \in rows : r.id \notin Ids(w)} \cup w

MinId(rows) == CHOOSE r \in rows : \A x \in rows : r.id <= x.id

EmptyWrites ==
    [feed_creation |-> {}, feed |-> {}, user_feed |-> {}, feed_url_map |-> {},
     story |-> {}]

(* model.save(): the whole row is written under its primary key *)
Save(w, table, row) ==
    [w EXCEPT ![table] = {r \in @ : r.id # row.id} \cup {row}]

----------------------------------------------------------------------------
(* What the workers send: FeedSchema, StorySchema and the actors' arguments *)

ImgX == "http://img/x.png"
ImgY == "http://img/y.png"

(* a story body: a sequence of pieces, a piece being text or an image
   reference <<"img", url pieces...>> *)
Content0 == << <<"text", "hello">>, <<"img", ImgX>>, <<"text", "and">>, <<"img", ImgY>> >>
Content1 == << <<"text", "full">>, <<"img", ImgX>> >>
Content2 == << <<"text", "full 2">> >>

StoryItem(uid, hash) ==
    [unique_id |-> uid, content_hash_base64 |-> hash, link |-> "http://s/" \o uid,
     summary |-> "sum", content |-> Content0]

StoryBatches ==
    { <<StoryItem("u1", "h1")>>,
      <<StoryItem("u1", "h2"), StoryItem("u2", "h1")>>,
      <<StoryItem("u2", "h1"), StoryItem("u2", "h2")>> }

(* the attributes of FeedSchema other than storys that the model keeps *)
FeedKeys == {"url", "title", "link"}

(* a feed without a title of its own is sent with title '' *)
FeedDicts ==
    {[url |-> u, title |-> IF Len(b) = 1 THEN "" ELSE "T", link |-> None,
      storys |-> b] : u \in {UrlA, UrlB}, b \in StoryBatches}

NoArgs ==
    [feed_creation_id |-> 0, status |-> "", messages |-> <<>>, feed |-> <<>>,
     feed_id |-> 0, story_id |-> 0, content |-> <<>>, summary |-> "",
     url |-> "", images |-> <<>>]

(* an optional value: <<>> is None, <<x>> is x *)
Some(x) == <<x>>

----------------------------------------------------------------------------
(* Handler invocations *)

Idle ==
    [name |-> "idle", pc |-> "idle", tx |-> "none", err |-> "", args |-> NoArgs,
     w |-> EmptyWrites, feed_creation |-> <<>>, feed |-> <<>>,
     modified_storys |-> <<>>, num_reallocate |-> 0]

Running(h) == handler[h].pc \notin {"idle", "done", "failed"}

(* an actor call arrives and enters `with transaction.atomic()` *)
Receive(h, name, pc, args) ==
    /\ handler[h].pc = "idle"
    /\ h > 1 => handler[h - 1].pc # "idle"
    /\ handler' = [handler EXCEPT ![h] =
            [Idle EXCEPT !.name = name, !.pc = pc, !.tx = "open", !.args = args]]

(* an exception inside the atomic block: the transaction rolls back and the
   actor call ends *)
Raise(h, err) ==
    handler' = [handler EXCEPT ![h] =
        [Idle EXCEPT !.name = handler[h].name, !.pc = "failed",
                     !.tx = "rolledback", !.err = err]]

(* the actor call returns: its arguments and locals are gone *)
Return(hr) ==
    [Idle EXCEPT !.name = hr.name, !.pc = "done", !.tx = hr.tx]

Step(h, name, pc) ==
    /\ handler[h].name = name
    /\ handler[h].pc = pc

----------------------------------------------------------------------------
(* The end of `with transaction.atomic()` *)

(* the unique constraints of the store: UserFeed (user_id, feed_id) and
   Story (feed_id, unique_id) *)
UserFeedUnique(rows) ==
    \A a, b \in rows :
        (a.user_id = b.user_id /\ a.feed_id = b.feed_id) => a.id = b.id

StoryUnique(rows) ==
    \A a, b \in rows :
        (a.feed_id = b.feed_id /\ a.unique_id = b.unique_id) => a.id = b.id

(* a variant of ConstraintsHold for a Story table without its unique key *)
ConstraintsHold_no_story_key(w) ==
    UserFeedUnique(Visible(user_feed, w.user_feed))

ConstraintsHold(w) ==
    /\ UserFeedUnique(Visible(user_feed, w.user_feed))
    /\ StoryUnique(Visible(story, w.story))

(* where the actor goes on after the atomic block *)
AfterCommit(hr) ==
    IF hr.name = "save_feed_creation_result" /\ hr.args.feed # <<>> THEN "send"
    ELSE IF hr.name = "update_feed" /\ hr.modified_storys # <<>> THEN "send"
    ELSE "done"

(* the block ends normally: the buffered writes become visible at once *)
Commit(h) ==
    /\ handler[h].pc = "commit"
    /\ ConstraintsHold(handler[h].w)
    /\ feed_creation' = Visible(feed_creation, handler[h].w.feed_creation)
    /\ feed' = Visible(feed, handler[h].w.feed)
    /\ user_feed' = Visible(user_feed, handler[h].w.user_feed)
    /\ feed_url_map' = Visible(feed_url_map, handler[h].w.feed_url_map)
    /\ story' = Visible(story, handler[h].w.story)
    /\ LET hr == [handler[h] EXCEPT !.tx = "committed", !.w = EmptyWrites]
       IN  handler' = [handler EXCEPT ![h] =
                IF AfterCommit(hr) = "done" THEN Return(hr)
                ELSE [hr EXCEPT !.pc = "send"]]
    /\ UNCHANGED <<seq, outbox, delivered, sweep, now>>

(* a write of the block collides with a row another transaction committed *)
CommitConflict(h) ==
    /\ handler[h].pc = "commit"
    /\ ~ConstraintsHold(handler[h].w)
    /\ Raise(h, "IntegrityError")
    /\ UNCHANGED <<tables, seq, outbox, delivered, sweep, now>>

(* leaving the atomic block *)
ExitAtomic(h) ==
    /\ handler[h].tx = "open"
    /\ \/ Commit(h)
       \/ CommitConflict(h)

(* a persistence error at any statement of the block *)
Fail(h) ==
    /\ handler[h].tx = "open"
    /\ Raise(h, "DatabaseError")
    /\ UNCHANGED <<tables, seq, outbox, delivered, sweep, now>>

----------------------------------------------------------------------------
(* harbor_rss.update_feed_creation_status *)

CreationIds == {1, 2, 3}      \* 3 is the id of no FeedCreation
StatusArgs == {UPDATING, READY}

Recv_update_feed_creation_status(h) ==
    /\ \E cid \in CreationIds, st \in StatusArgs :
          Receive(h, "update_feed_creation_status", "save",
                  [NoArgs EXCEPT !.feed_creation_id = cid, !.status = st])
    /\ UNCHANGED <<tables, seq, outbox, delivered, sweep, now>>

(* a variant of do_update_feed_creation_status that sets the status it is
   given *)
do_update_feed_creation_status_as_given(h) ==
    /\ Step(h, "update_feed_creation_status", "save")
    /\ LET cid == handler[h].args.feed_creation_id
           rows == Visible(feed_creation, handler[h].w.feed_creation)
       IN  \/ /\ ~HasRow(rows, cid)
              /\ Raise(h, "DoesNotExist")
           \/ /\ HasRow(rows, cid)
              /\ LET fc == [GetByPk(rows, cid) EXCEPT
                               !.status = handler[h].args.status]
                 IN  handler' = [handler EXCEPT
                        ![h].w = Save(@, "feed_creation", fc),
                        ![h].pc = "commit"]
    /\ UNCHANGED <<tables, seq, outbox, delivered, sweep, now>>

do_update_feed_creation_status(h) ==
    /\ Step(h, "update_feed_creation_status", "save")
    /\ LET cid == handler[h].args.feed_creation_id
           rows == Visible(feed_creation, handler[h].w.feed_creation)
       IN  \/ /\ ~HasRow(rows, cid)
              /\ Raise(h, "DoesNotExist")
           \/ /\ HasRow(rows, cid)
              /\ LET fc == [GetByPk(rows, cid) EXCEPT !.status = UPDATING]
                 IN  handler' = [handler EXCEPT
                        ![h].w = Save(@, "feed_creation", fc),
                        ![h].pc = "commit"]
    /\ UNCHANGED <<tables, seq, outbox, delivered, sweep, now>>

----------------------------------------------------------------------------
(* harbor_rss.save_feed_creation_result *)

CreationResults ==
    {[messages |-> <<"dns error", "no feed">>, feed |-> <<>>]}
    \cup {[messages |-> <<"ok">>, feed |-> Some(f)] : f \in FeedDicts}

Recv_save_feed_creation_result(h) ==
    /\ \E cid \in CreationIds, r \in CreationResults :
          Receive(h, "save_feed_creation_result", "get",
                  [NoArgs EXCEPT !.feed_creation_id = cid,
                                 !.messages = r.messages, !.feed = r.feed])
    /\ UNCHANGED <<tables, seq, outbox, delivered, sweep, now>>

(* a variant of ResultStatus that leaves out the branch of lines 88-92 *)
ResultStatus_always_ready(feed_dict) == READY

(* lines 88-93 *)
ResultStatus(feed_dict) == IF feed_dict = <<>> THEN ERROR ELSE READY

(* lines 86-93: the FeedCreation as the handler saves it *)
StoreResult(fc, messages, feed_dict) ==
    [fc EXCEPT !.message = Join(MessageSep, messages),
               !.dt_updated = now,
               !.status = ResultStatus(feed_dict)]

(* lines 84-94: load the FeedCreation, store the result; without a feed the
   url is recorded as NOT_FOUND and the handler returns *)
do_save_feed_creation_result_get(h) ==
    /\ Step(h, "save_feed_creation_result", "get")
    /\ LET a == handler[h].args
           rows == Visible(feed_creation, handler[h].w.feed_creation)
       IN  \/ /\ ~HasRow(rows, a.feed_creation_id)
              /\ Raise(h, "DoesNotExist")
              /\ UNCHANGED seq
           \/ /\ HasRow(rows, a.feed_creation_id)
              /\ a.feed = <<>>
              /\ LET fc == StoreResult(GetByPk(rows, a.feed_creation_id),
                                       a.messages, a.feed)
                     m == [id |-> seq.feed_url_map + 1, source |-> fc.url,
                           target |-> NOT_FOUND]
                 IN  /\ handler' = [handler EXCEPT
                            ![h].w = Save(Save(@, "feed_creation", fc),
                                          "feed_url_map", m),
                            ![h].feed_creation = Some(fc),
                            ![h].pc = "commit"]
                     /\ seq' = [seq EXCEPT !.feed_url_map = @ + 1]
           \/ /\ HasRow(rows, a.feed_creation_id)
              /\ a.feed # <<>>
              /\ LET fc == StoreResult(GetByPk(rows, a.feed_creation_id),
                                       a.messages, a.feed)
                 IN  handler' = [handler EXCEPT
                        ![h].w = Save(@, "feed_creation", fc),
                        ![h].feed_creation = Some(fc),
                        ![h].pc = "feed"]
              /\ UNCHANGED seq
    /\ UNCHANGED <<tables, outbox, delivered, sweep, now>>

(* Feed.get_first_by_url: the feed with that url of the lowest id, if any *)
GetFirstByUrl(rows, url) ==
    LET found == {f \in rows : f.url = url}
    IN  IF found = {} THEN <<>> ELSE Some(MinId(found))

(* lines 95-99: resolve the Feed by the payload's url, or create it *)
do_save_feed_creation_result_feed(h) ==
    /\ Step(h, "save_feed_creation_result", "feed")
    /\ LET url == handler[h].args.feed[1].url
           got == GetFirstByUrl(Visible(feed, handler[h].w.feed), url)
           new == [id |-> seq.feed + 1, url |-> url, title |-> None,
                   link |-> None, status |-> READY, dt_updated |-> now]
       IN  \/ /\ got # <<>>
              /\ handler' = [handler EXCEPT ![h].feed = got,
                                            ![h].pc = "user_feed"]
              /\ UNCHANGED seq
           \/ /\ got = <<>>
              /\ handler' = [handler EXCEPT
                    ![h].w = Save(@, "feed", new),
                    ![h].feed = Some(new),
                    ![h].pc = "user_feed"]
              /\ seq' = [seq EXCEPT !.feed = @ + 1]
    /\ UNCHANGED <<tables, outbox, delivered, sweep, now>>

(* lines 100-111: the UserFeed to insert, none when the link is found *)
NewUserFeed(rows, fc, f, id) ==
    IF \E r \in rows : r.user_id = fc.user_id /\ r.feed_id = f.id THEN {}
    ELSE {[id |-> id, user_id |-> fc.user_id, feed_id |-> f.id,
           is_from_bookmark |-> fc.is_from_bookmark]}

(* a variant of UrlMapRows that leaves out the test of line 113 *)
UrlMapRows_unconditional(fc, f, n) ==
    {[id |-> n + 1, source |-> fc.url, target |-> f.url],
     [id |-> n + 2, source |-> f.url, target |-> f.url]}

(* lines 112-114: the FeedUrlMap rows to insert, ids from n + 1 on *)
UrlMapRows(fc, f, n) ==
    {[id |-> n + 1, source |-> fc.url, target |-> f.url]}
    \cup (IF f.url # fc.url
          THEN {[id |-> n + 2, source |-> f.url, target |-> f.url]}
          ELSE {})

(* a variant of do_save_feed_creation_result_user_feed with the ctx.send of
   line 115 indented into the atomic block *)
do_save_feed_creation_result_user_feed_sends(h) ==
    /\ Step(h, "save_feed_creation_result", "user_feed")
    /\ LET fc == handler[h].feed_creation[1]
           f == handler[h].feed[1]
           uf == NewUserFeed(Visible(user_feed, handler[h].w.user_feed), fc, f,
                             seq.user_feed + 1)
           maps == UrlMapRows(fc, f, seq.feed_url_map)
       IN  /\ handler' = [handler EXCEPT
                  ![h].w.user_feed = @ \cup uf,
                  ![h].w.feed_url_map = @ \cup maps,
                  ![h].pc = "commit"]
           /\ seq' = [seq EXCEPT
                  !.user_feed = @ + Cardinality(uf),
                  !.feed_url_map = @ + Cardinality(maps)]
    /\ outbox' = Append(outbox,
                        [name |-> "harbor_rss.update_feed", feed_id |-> handler[h].feed[1].id,
                         feed |-> handler[h].args.feed, url |-> "", story_id |-> ""])
    /\ UNCHANGED <<tables, delivered, sweep, now>>

(* lines 100-114: link the requester to the feed unless a link is found,
   and record the url mappings *)
do_save_feed_creation_result_user_feed(h) ==
    /\ Step(h, "save_feed_creation_result", "user_feed")
    /\ LET fc == handler[h].feed_creation[1]
           f == handler[h].feed[1]
           uf == NewUserFeed(Visible(user_feed, handler[h].w.user_feed), fc, f,
                             seq.user_feed + 1)
           maps == UrlMapRows(fc, f, seq.feed_url_map)
       IN  /\ handler' = [handler EXCEPT
                  ![h].w.user_feed = @ \cup uf,
                  ![h].w.feed_url_map = @ \cup maps,
                  ![h].pc = "commit"]
           /\ seq' = [seq EXCEPT
                  !.user_feed = @ + Cardinality(uf),
                  !.feed_url_map = @ + Cardinality(maps)]
    /\ UNCHANGED <<tables, outbox, delivered, sweep, now>>

UpdateFeedMsg(feed_id, feed_dict) ==
    [name |-> "harbor_rss.update_feed", feed_id |-> feed_id,
     feed |-> feed_dict, url |-> "", story_id |-> ""]

(* lines 115-118, after the atomic block *)
do_save_feed_creation_result_send(h) ==
    /\ Step(h, "save_feed_creation_result", "send")
    /\ handler[h].tx = "committed"
    /\ outbox' = Append(outbox,
                        UpdateFeedMsg(handler[h].feed[1].id, handler[h].args.feed))
    /\ handler' = [handler EXCEPT ![h] = Return(@)]
    /\ UNCHANGED <<tables, seq, delivered, sweep, now>>

----------------------------------------------------------------------------
(* Story.bulk_save_by_feed(feed_id, storys) -> (modified_storys, num_reallocate) *)

SetRow(rows, row) == {r \in rows : r.id # row.id} \cup {row}

(* title, author, link, timestamps and hash are taken from the incoming story *)
UpdateStory(old, item) ==
    [old EXCEPT !.content_hash_base64 = item.content_hash_base64,
                !.link = item.link]

NewStory(id, feed_id, item) ==
    [id |-> id, feed_id |-> feed_id, unique_id |-> item.unique_id,
     content_hash_base64 |-> item.content_hash_base64, link |-> item.link,
     summary |-> item.summary, content |-> item.content]

(* a variant of SaveOneStory that never looks under other feeds: a story
   unknown to this feed is inserted *)
SaveOneStory_no_reallocate(feed_id, item, acc) ==
    LET mine == {r \in acc.rows :
                    r.feed_id = feed_id /\ r.unique_id = item.unique_id}
        new == NewStory(acc.seq + 1, feed_id, item)
    IN  IF mine # {} THEN acc
        ELSE [acc EXCEPT !.rows = SetRow(@, new), !.w = SetRow(@, new),
                         !.modified = Append(@, new), !.seq = @ + 1]

(* one incoming story against the rows seen so far; acc is
   [rows, w, modified, num_reallocate, seq] *)
SaveOneStory(feed_id, item, acc) ==
    LET mine == {r \in acc.rows :
                    r.feed_id = feed_id /\ r.unique_id = item.unique_id}
        other == {r \in acc.rows :
                    r.feed_id # feed_id /\ r.unique_id = item.unique_id}
        changed(old) == old.content_hash_base64 # item.content_hash_base64
        write(row, acc0) ==
            [acc0 EXCEPT !.rows = SetRow(@, row), !.w = SetRow(@, row)]
    IN  IF mine # {} THEN
            LET old == MinId(mine)
            IN  IF ~changed(old) THEN acc
                ELSE [write(UpdateStory(old, item), acc) EXCEPT
                         !.modified = Append(@, UpdateStory(old, item))]
        ELSE IF other # {} THEN
            LET old == MinId(other)
                moved == [old EXCEPT !.feed_id = feed_id]
                acc1 == [write(moved, acc) EXCEPT !.num_reallocate = @ + 1]
            IN  IF ~changed(old) THEN acc1
                ELSE [write(UpdateStory(moved, item), acc1) EXCEPT
                         !.modified = Append(@, UpdateStory(moved, item))]
        ELSE
            LET new == NewStory(acc.seq + 1, feed_id, item)
            IN  [write(new, acc) EXCEPT !.modified = Append(@, new),
                                        !.seq = @ + 1]

RECURSIVE BulkSaveByFeed(_, _, _)
BulkSaveByFeed(feed_id, storys, acc) ==
    IF storys = <<>> THEN acc
    ELSE BulkSaveByFeed(feed_id, Tail(storys),
                        SaveOneStory(feed_id, Head(storys), acc))

----------------------------------------------------------------------------
(* harbor_rss.update_feed *)

FeedIds == {1, 2, 3}

Recv_update_feed(h) ==
    /\ \E feed_id \in FeedIds, f \in FeedDicts :
          Receive(h, "update_feed", "feed",
                  [NoArgs EXCEPT !.feed_id = feed_id, !.feed = Some(f)])
    /\ UNCHANGED <<tables, seq, outbox, delivered, sweep, now>>

(* the update_feed message a save_feed_creation_result sent arrives *)
Deliver_update_feed(h) ==
    /\ \E i \in (1..Len(outbox)) \ delivered :
          /\ outbox[i].name = "harbor_rss.update_feed"
          /\ Receive(h, "update_feed", "feed",
                     [NoArgs EXCEPT !.feed_id = outbox[i].feed_id,
                                    !.feed = outbox[i].feed])
          /\ delivered' = delivered \cup {i}
    /\ UNCHANGED <<tables, seq, outbox, sweep, now>>

(* a variant of SetAttrs without the test of line 133 *)
SetAttrs_every_value(f, feed_dict) ==
    [k \in DOMAIN f |-> IF k \in FeedKeys THEN feed_dict[k] ELSE f[k]]

(* lines 132-134: every attribute of the payload that is neither '' nor None
   is set on the feed *)
SetAttrs(f, feed_dict) ==
    [k \in DOMAIN f |->
        IF k \in FeedKeys /\ feed_dict[k] # "" /\ feed_dict[k] # None
        THEN feed_dict[k] ELSE f[k]]

(* lines 129-135 *)
do_update_feed_feed(h) ==
    /\ Step(h, "update_feed", "feed")
    /\ LET a == handler[h].args
           rows == Visible(feed, handler[h].w.feed)
       IN  \/ /\ ~HasRow(rows, a.feed_id)
              /\ Raise(h, "DoesNotExist")
           \/ /\ HasRow(rows, a.feed_id)
              /\ LET f == SetAttrs(GetByPk(rows, a.feed_id), a.feed[1])
                 IN  handler' = [handler EXCEPT
                        ![h].w = Save(@, "feed", f),
                        ![h].feed = Some(f),
                        ![h].pc = "storys"]
    /\ UNCHANGED <<tables, seq, outbox, delivered, sweep, now>>

(* a variant of FetchList that asks for every story of the feed *)
FetchList_whole_feed(feed_id, res) ==
    LET rows == {r \in res.rows : r.feed_id = feed_id}
        RECURSIVE seqOf(_)
        seqOf(S) == IF S = {} THEN <<>>
                    ELSE <<MinId(S)>> \o seqOf(S \ {MinId(S)})
    IN  seqOf(rows)

(* lines 136, 141: the stories the handler asks the worker to fetch *)
FetchList(feed_id, res) == res.modified

(* line 136 *)
do_update_feed_storys(h) ==
    /\ Step(h, "update_feed", "storys")
    /\ LET res == BulkSaveByFeed(
                      handler[h].feed[1].id, handler[h].args.feed[1].storys,
                      [rows |-> Visible(story, handler[h].w.story),
                       w |-> handler[h].w.story, modified |-> <<>>,
                       num_reallocate |-> 0, seq |-> seq.story])
       IN  /\ handler' = [handler EXCEPT
                  ![h].w.story = res.w,
                  ![h].modified_storys = FetchList(handler[h].feed[1].id, res),
                  ![h].num_reallocate = res.num_reallocate,
                  ![h].pc = "commit"]
           /\ seq' = [seq EXCEPT !.story = res.seq]
    /\ UNCHANGED <<tables, outbox, delivered, sweep, now>>

(* a variant of FetchStoryMsg that leaves the link out *)
FetchStoryMsg_no_link(s) ==
    [name |-> "worker_rss.fetch_story", feed_id |-> 0, feed |-> <<>>,
     url |-> "", story_id |-> ToString(s.id)]

FetchStoryMsg(s) ==
    [name |-> "worker_rss.fetch_story", feed_id |-> 0, feed |-> <<>>,
     url |-> s.link, story_id |-> ToString(s.id)]

(* lines 141-145, after the atomic block: one message per modified story *)
do_update_feed_send(h) ==
    /\ Step(h, "update_feed", "send")
    /\ handler[h].tx = "committed"
    /\ outbox' = Append(outbox, FetchStoryMsg(Head(handler[h].modified_storys)))
    /\ handler' = [handler EXCEPT ![h] =
            IF Tail(@.modified_storys) = <<>> THEN Return(@)
            ELSE [@ EXCEPT !.modified_storys = Tail(@)]]
    /\ UNCHANGED <<tables, seq, delivered, sweep, now>>

----------------------------------------------------------------------------
(* harbor_rss.update_story *)

StoryIds == {1, 3}

StoryUpdates ==
    {[content |-> Content1, summary |-> "full", url |-> "http://s/u1?full"],
     [content |-> Content2, summary |-> "full 2", url |-> "http://s/u1?full=2"]}

Recv_update_story(h) ==
    /\ \E story_id \in StoryIds, u \in StoryUpdates :
          Receive(h, "update_story", "save",
                  [NoArgs EXCEPT !.story_id = story_id, !.content = u.content,
                                 !.summary = u.summary, !.url = u.url])
    /\ UNCHANGED <<tables, seq, outbox, delivered, sweep, now>>

(* a variant of do_update_story without the atomic block of line 157: the
   save of line 162 is committed on its own *)
do_update_story_autocommit(h) ==
    /\ Step(h, "update_story", "save")
    /\ LET a == handler[h].args
       IN  \/ /\ ~HasRow(story, a.story_id)
              /\ Raise(h, "DoesNotExist")
              /\ UNCHANGED story
           \/ /\ HasRow(story, a.story_id)
              /\ story' = {IF r.id = a.story_id
                           THEN [r EXCEPT !.link = a.url, !.content = a.content,
                                          !.summary = a.summary]
                           ELSE r : r \in story}
              /\ handler' = [handler EXCEPT ![h].pc = "commit"]
    /\ UNCHANGED <<feed_creation, feed, user_feed, feed_url_map, seq, outbox,
                   delivered, sweep, now>>

(* a variant of do_update_story without line 161 *)
do_update_story_keeps_summary(h) ==
    /\ Step(h, "update_story", "save")
    /\ LET a == handler[h].args
           rows == Visible(story, handler[h].w.story)
       IN  \/ /\ ~HasRow(rows, a.story_id)
              /\ Raise(h, "DoesNotExist")
           \/ /\ HasRow(rows, a.story_id)
              /\ LET s == [GetByPk(rows, a.story_id) EXCEPT
                              !.link = a.url, !.content = a.content]
                 IN  handler' = [handler EXCEPT
                        ![h].w = Save(@, "story", s),
                        ![h].pc = "commit"]
    /\ UNCHANGED <<tables, seq, outbox, delivered, sweep, now>>

(* lines 157-162 *)
do_update_story(h) ==
    /\ Step(h, "update_story", "save")
    /\ LET a == handler[h].args
           rows == Visible(story, handler[h].w.story)
       IN  \/ /\ ~HasRow(rows, a.story_id)
              /\ Raise(h, "DoesNotExist")
           \/ /\ HasRow(rows, a.story_id)
              /\ LET s == [GetByPk(rows, a.story_id) EXCEPT
                              !.link = a.url, !.content = a.content,
                              !.summary = a.summary]
                 IN  handler' = [handler EXCEPT
                        ![h].w = Save(@, "story", s),
                        ![h].pc = "commit"]
    /\ UNCHANGED <<tables, seq, outbox, delivered, sweep, now>>

----------------------------------------------------------------------------
(* harbor_rss.update_story_images *)

REFERER_DENY == -206
REFERER_NOT_ALLOWED == -207

(* a variant of IMAGE_REFERER_DENY_STATUS without 403 *)
IMAGE_REFERER_DENY_STATUS_no_403 == {400, 401, 404, REFERER_DENY, REFERER_NOT_ALLOWED}

IMAGE_REFERER_DENY_STATUS == {400, 401, 403, 404, REFERER_DENY, REFERER_NOT_ALLOWED}

(* rssant_common.image_url.encode_image_url: the token of (url, referer) *)
encode_image_url(url, referer) == <<url, referer>>

(* lines 183-187: url -> '/api/v1/image/{token}' for every denied image, a
   later entry of the list overwriting an earlier one *)
RECURSIVE ImageReplaces(_, _)
ImageReplaces(images, story_url) ==
    IF images = <<>> THEN <<>>
    ELSE LET img == images[Len(images)]
             rest == ImageReplaces(SubSeq(images, 1, Len(images) - 1), story_url)
         IN  IF img.status \in IMAGE_REFERER_DENY_STATUS
                /\ ~\E i \in 1..Len(rest) : rest[i].url = img.url
             THEN Append(rest, [url |-> img.url,
                                to |-> <<"/api/v1/image/">>
                                        \o encode_image_url(img.url, story_url)])
             ELSE rest

(* StoryImageProcessor.parse: the positions of the image references *)
ProcessorParse(content) ==
    {i \in 1..Len(content) : content[i][1] = "img"}

(* StoryImageProcessor.process: the references whose url is in the map are
   replaced, everything else is kept *)
ProcessorProcess(content, image_indexs, image_replaces) ==
    [i \in 1..Len(content) |->
        IF i \in image_indexs
           /\ \E j \in 1..Len(image_replaces) :
                 <<image_replaces[j].url>> = Tail(content[i])
        THEN LET j == CHOOSE j \in 1..Len(image_replaces) :
                         <<image_replaces[j].url>> = Tail(content[i])
             IN  <<"img">> \o image_replaces[j].to
        ELSE content[i]]

StoryUrl == "http://s/u1"

ImageReports ==
    { <<[url |-> ImgX, status |-> 403], [url |-> ImgY, status |-> 200]>>,
      <<[url |-> ImgY, status |-> REFERER_DENY]>>,
      <<[url |-> ImgX, status |-> 200]>> }

Recv_update_story_images(h) ==
    /\ \E story_id \in StoryIds, images \in ImageReports :
          Receive(h, "update_story_images", "save",
                  [NoArgs EXCEPT !.story_id = story_id, !.url = StoryUrl,
                                 !.images = images])
    /\ UNCHANGED <<tables, seq, outbox, delivered, sweep, now>>

(* lines 183-196 *)
do_update_story_images(h) ==
    /\ Step(h, "update_story_images", "save")
    /\ LET a == handler[h].args
           image_replaces == ImageReplaces(a.images, a.url)
           rows == Visible(story, handler[h].w.story)
       IN  \/ /\ ~HasRow(rows, a.story_id)
              /\ Raise(h, "DoesNotExist")
           \/ /\ HasRow(rows, a.story_id)
              /\ LET s == GetByPk(rows, a.story_id)
                     content == ProcessorProcess(
                         s.content, ProcessorParse(s.content), image_replaces)
                 IN  handler' = [handler EXCEPT
                        ![h].w = Save(@, "story", [s EXCEPT !.content = content]),
                        ![h].pc = "commit"]
    /\ UNCHANGED <<tables, seq, outbox, delivered, sweep, now>>

----------------------------------------------------------------------------
(* harbor_rss.clean_feed_creation: no atomic block, every statement of the
   sweep is committed on its own *)

Sweeps == 1..MaxSweeps

SURVIVAL_DELETE == 7200        \* 2 * 60 * 60, line 215
SURVIVAL_UPDATING == 600       \* 10 * 60, line 219
SURVIVAL_PENDING == 1800       \* 30 * 60, line 225

(* FeedCreation.delete_by_status(status=None, survival_seconds): what is
   left.  The sweep passes no status, and line 214 says what the call is for:
   every FeedCreation stored more than survival_seconds ago goes. *)
DeleteByStatus(rows, status, survival_seconds) ==
    {r \in rows : ~(/\ status = None \/ r.status = status
                    /\ now - r.dt_created > survival_seconds)}

(* FeedCreation.query_ids_by_status(status, survival_seconds): the ids of the
   FeedCreations of that status last updated more than survival_seconds ago *)
QueryIdsByStatus(rows, status, survival_seconds) ==
    {r.id : r \in {x \in rows : /\ x.status = status
                                /\ now - x.dt_updated > survival_seconds}}

(* FeedCreation.bulk_set_pending(feed_creation_ids) *)
BulkSetPending(rows, feed_creation_ids) ==
    {IF r.id \in feed_creation_ids THEN [r EXCEPT !.status = PENDING] ELSE r :
        r \in rows}

(* a variant of _retry_feed_creations that sets nothing *)
_retry_feed_creations_noop(rows, feed_creation_ids) == rows

(* line 237 *)
_retry_feed_creations(rows, feed_creation_ids) ==
    BulkSetPending(rows, feed_creation_ids)

SweepStep(k, pc) == sweep[k].pc = pc

SweepGoto(k, pc, ids) ==
    sweep' = [sweep EXCEPT ![k] = [pc |-> pc, feed_creation_ids |-> ids]]

(* the scheduler calls the actor *)
Recv_clean_feed_creation(k) ==
    /\ SweepStep(k, "idle")
    /\ k > 1 => sweep[k - 1].pc # "idle"
    /\ SweepGoto(k, "delete", {})
    /\ UNCHANGED <<tables, seq, handler, outbox, delivered, now>>

(* a variant of do_clean_feed_creation_delete that spares the FeedCreations
   that are PENDING or UPDATING *)
do_clean_feed_creation_delete_terminal(k) ==
    /\ SweepStep(k, "delete")
    /\ feed_creation' = {r \in feed_creation :
                            ~(/\ r.status \in {READY, ERROR}
                              /\ now - r.dt_created > SURVIVAL_DELETE)}
    /\ SweepGoto(k, "query_updating", {})
    /\ UNCHANGED <<feed, user_feed, feed_url_map, story, seq, handler, outbox,
                   delivered, now>>

(* line 215 *)
do_clean_feed_creation_delete(k) ==
    /\ SweepStep(k, "delete")
    /\ feed_creation' = DeleteByStatus(feed_creation, None, SURVIVAL_DELETE)
    /\ SweepGoto(k, "query_updating", {})
    /\ UNCHANGED <<feed, user_feed, feed_url_map, story, seq, handler, outbox,
                   delivered, now>>

(* lines 218-219 *)
do_clean_feed_creation_query_updating(k) ==
    /\ SweepStep(k, "query_updating")
    /\ SweepGoto(k, "retry_updating",
                 QueryIdsByStatus(feed_creation, UPDATING, SURVIVAL_UPDATING))
    /\ UNCHANGED <<tables, seq, handler, outbox, delivered, now>>

(* line 222 *)
do_clean_feed_creation_retry_updating(k) ==
    /\ SweepStep(k, "retry_updating")
    /\ feed_creation' = _retry_feed_creations(feed_creation, sweep[k].feed_creation_ids)
    /\ SweepGoto(k, "query_pending", {})
    /\ UNCHANGED <<feed, user_feed, feed_url_map, story, seq, handler, outbox,
                   delivered, now>>

(* lines 224-225 *)
do_clean_feed_creation_query_pending(k) ==
    /\ SweepStep(k, "query_pending")
    /\ SweepGoto(k, "retry_pending",
                 QueryIdsByStatus(feed_creation, PENDING, SURVIVAL_PENDING))
    /\ UNCHANGED <<tables, seq, handler, outbox, delivered, now>>

(* lines 228-233 *)
do_clean_feed_creation_retry_pending(k) ==
    /\ SweepStep(k, "retry_pending")
    /\ feed_creation' = _retry_feed_creations(feed_creation, sweep[k].feed_creation_ids)
    /\ SweepGoto(k, "done", {})
    /\ UNCHANGED <<feed, user_feed, feed_url_map, story, seq, handler, outbox,
                   delivered, now>>

(* time passes *)
TickSeconds == 5 * 60
StartNow == 125 * 60

Tick ==
    /\ now < StartNow + MaxTicks * TickSeconds
    /\ now' = now + TickSeconds
    /\ UNCHANGED <<tables, seq, handler, outbox, delivered, sweep>>

----------------------------------------------------------------------------
(* The initial rows *)

FeedCreationRow(id, url, user_id, status, dt) ==
    [id |-> id, url |-> url, user_id |-> user_id, is_from_bookmark |-> FALSE,
     status |-> status, message |-> <<>>, dt_created |-> dt, dt_updated |-> dt]

FeedRow(id, url) ==
    [id |-> id, url |-> url, title |-> "T0", link |-> "http://a/", status |-> READY,
     dt_updated |-> 0]

NoSweep == [pc |-> "idle", feed_creation_ids |-> {}]

Init ==
    /\ feed_creation = {FeedCreationRow(1, UrlA, 1, PENDING, 0),
                        FeedCreationRow(2, UrlB, 2, PENDING, 0)}
    /\ feed \in {{}, {FeedRow(1, UrlA)}, {FeedRow(1, UrlA), FeedRow(2, UrlB)}}
    /\ story \in {{}} \cup
                 (IF feed # {} THEN {{NewStory(1, 1, StoryItem("u1", "h1"))}} ELSE {})
    /\ user_feed = {}
    /\ feed_url_map = {}
    /\ seq = [feed |-> Cardinality(feed), user_feed |-> 0, feed_url_map |-> 0,
              story |-> Cardinality(story)]
    /\ handler = [h \in Handlers |-> Idle]
    /\ outbox = <<>>
    /\ delivered = {}
    /\ sweep = [k \in Sweeps |-> NoSweep]
    /\ now = 0

Next ==
    \E h \in Handlers :
        \/ Recv_update_feed_creation_status(h)
        \/ do_update_feed_creation_status(h)
        \/ Recv_save_feed_creation_result(h)
        \/ do_save_feed_creation_result_get(h)
        \/ do_save_feed_creation_result_feed(h)
        \/ do_save_feed_creation_result_user_feed(h)
        \/ do_save_feed_creation_result_send(h)
        \/ Recv_update_feed(h)
        \/ Deliver_update_feed(h)
        \/ do_update_feed_feed(h)
        \/ do_update_feed_storys(h)
        \/ do_update_feed_send(h)
        \/ Recv_update_story(h)
        \/ do_update_story(h)
        \/ Recv_update_story_images(h)
        \/ do_update_story_images(h)
        \/ ExitAtomic(h)
        \/ Fail(h)

Spec == Init /\ [][Next]_vars


----------------------------------------------------------------------------
(* The sweep beside the FeedCreation handlers, with FeedCreations of every
   status and age *)

InitAges == {5 * 60, 15 * 60, 35 * 60, 125 * 60}

MaxSweepHandlers == 1

SweepInit ==
    /\ now = StartNow
    /\ \E s1 \in FeedStatus, a1 \in InitAges :
          feed_creation = {FeedCreationRow(1, UrlA, 1, s1, now - a1),
                           FeedCreationRow(2, UrlB, 2, UPDATING, now - 15 * 60)}
    /\ feed = {FeedRow(1, UrlA)}
    /\ story = {}
    /\ user_feed = {}
    /\ feed_url_map = {}
    /\ seq = [feed |-> 1, user_feed |-> 0, feed_url_map |-> 0, story |-> 0]
    /\ handler = [h \in Handlers |-> Idle]
    /\ outbox = <<>>
    /\ delivered = {}
    /\ sweep = [k \in Sweeps |-> NoSweep]

SweepNext ==
    \/ \E k \in Sweeps :
        \/ Recv_clean_feed_creation(k)
        \/ do_clean_feed_creation_delete(k)
        \/ do_clean_feed_creation_query_updating(k)
        \/ do_clean_feed_creation_retry_updating(k)
        \/ do_clean_feed_creation_query_pending(k)
        \/ do_clean_feed_creation_retry_pending(k)
    \/ Tick
    \/ \E h \in 1..MaxSweepHandlers :
        \/ Recv_update_feed_creation_status(h)
        \/ do_update_feed_creation_status(h)
        \/ Recv_save_feed_creation_result(h)
        \/ do_save_feed_creation_result_get(h)
        \/ do_save_feed_creation_result_feed(h)
        \/ do_save_feed_creation_result_user_feed(h)
        \/ do_save_feed_creation_result_send(h)
        \/ ExitAtomic(h)
        \/ Fail(h)

SweepSpec == SweepInit /\ [][SweepNext]_vars

----------------------------------------------------------------------------
(* The way of a creation result through save_feed_creation_result and
   update_feed when no statement meets a persistence error, every call runs to
   its end and every update_feed sent is delivered: two results arrive, and
   there is a call for each update_feed they send *)

MaxLiveResults == 2
MaxLiveHandlers == 4

LiveHandlers == 1..MaxLiveHandlers

LiveInit ==
    /\ feed_creation = {FeedCreationRow(1, UrlA, 1, PENDING, 0),
                        FeedCreationRow(2, UrlB, 2, PENDING, 0)}
    /\ feed \in {{}, {FeedRow(1, UrlA)}}
    /\ story = {}
    /\ user_feed = {}
    /\ feed_url_map = {}
    /\ seq = [feed |-> Cardinality(feed), user_feed |-> 0, feed_url_map |-> 0,
              story |-> 0]
    /\ handler = [h \in LiveHandlers |-> Idle]
    /\ outbox = <<>>
    /\ delivered = {}
    /\ sweep = [k \in Sweeps |-> NoSweep]
    /\ now = 0

LiveNext ==
    \/ \E h \in 1..MaxLiveResults : Recv_save_feed_creation_result(h)
    \/ \E h \in LiveHandlers :
        \/ do_save_feed_creation_result_get(h)
        \/ do_save_feed_creation_result_feed(h)
        \/ do_save_feed_creation_result_user_feed(h)
        \/ do_save_feed_creation_result_send(h)
        \/ Deliver_update_feed(h)
        \/ do_update_feed_feed(h)
        \/ do_update_feed_storys(h)
        \/ do_update_feed_send(h)
        \/ ExitAtomic(h)

LiveSpec == LiveInit /\ [][LiveNext]_vars /\ WF_vars(LiveNext)

----------------------------------------------------------------------------
(* Properties *)

(* handler h leaves its atomic block normally in this step *)
Commits(h) == handler[h].pc = "commit" /\ handler'[h].tx = "committed"

(* handler h takes this step *)
Acts(h) == handler'[h] # handler[h]

(* handler h takes this step and no exception ends it *)
Proceeds(h) == Acts(h) /\ handler'[h].pc # "failed"

NewRows(rows, rows2) == {r \in rows2 : r.id \notin Ids(rows)}

Mappings(rows) == {<<r.source, r.target>> : r \in rows}

(* C1: a save_feed_creation_result with a feed payload for an existing
   FeedCreation commits that FeedCreation as READY, one Feed found by the
   payload's url (an existing one reused, otherwise exactly one created), a
   UserFeed of the requester and that Feed, the FeedUrlMap entry requested url
   -> feed url plus, only when the two urls differ, feed url -> feed url, and
   then sends exactly one update_feed message with the Feed's id and the whole
   payload, storys included. *)
C1_Resolved(h) ==
    LET url == handler[h].args.feed[1].url
        existing == {f \in feed : f.url = url}
    IN  (Step(h, "save_feed_creation_result", "feed") /\ Proceeds(h)) =>
            /\ handler'[h].feed # <<>>
            /\ handler'[h].feed[1].url = url
            /\ existing # {} => /\ handler'[h].feed[1] \in existing
                                /\ handler'[h].w.feed = {}
            /\ existing = {} => /\ handler'[h].feed[1].id \notin Ids(feed)
                                /\ handler'[h].w.feed = {handler'[h].feed[1]}

C1_Committed(h) ==
    LET a == handler[h].args
        f == handler[h].feed[1]
        fc == handler[h].feed_creation[1]
        maps == NewRows(feed_url_map, feed_url_map')
    IN  (handler[h].name = "save_feed_creation_result" /\ a.feed # <<>>
         /\ Commits(h)) =>
            /\ \E r \in feed_creation' :
                  r.id = a.feed_creation_id /\ r.status = READY
            /\ f.url = a.feed[1].url
            /\ HasRow(feed', f.id)
            /\ NewRows(feed, feed') \subseteq {f}
            /\ \E uf \in user_feed' :
                  uf.user_id = fc.user_id /\ uf.feed_id = f.id
            /\ Mappings(maps) = {<<fc.url, f.url>>, <<f.url, f.url>>}
            /\ Cardinality(maps) = IF f.url # fc.url THEN 2 ELSE 1
            /\ \A r \in feed_url_map : r \in feed_url_map'
            /\ handler'[h].pc = "send"
            /\ outbox' = outbox

C1_Sent(h) ==
    (handler[h].name = "save_feed_creation_result" /\ handler[h].args.feed # <<>>
     /\ handler[h].tx = "committed" /\ Acts(h)) =>
        /\ outbox' = Append(outbox,
              [name |-> "harbor_rss.update_feed",
               feed_id |-> handler[h].feed[1].id,
               feed |-> handler[h].args.feed, url |-> "", story_id |-> ""])
        /\ handler'[h].pc = "done"
        /\ UNCHANGED tables

C1_CreationResultWithFeed ==
    [][\A h \in Handlers : C1_Resolved(h) /\ C1_Committed(h) /\ C1_Sent(h)]_vars

(* a creation result for FeedCreation 1 (requested UrlA) that resolved to a
   new Feed of url UrlB was saved and its update_feed message sent *)
C1_Witness ==
    /\ \E h \in Handlers :
          /\ handler[h].name = "save_feed_creation_result"
          /\ handler[h].pc = "done"
          /\ handler[h].tx = "committed"
    /\ \E r \in feed_creation : r.id = 1 /\ r.status = READY
    /\ \E f \in feed :
          /\ f.url = UrlB
          /\ \E uf \in user_feed : uf.user_id = 1 /\ uf.feed_id = f.id
          /\ Len(outbox) = 1
          /\ outbox[1].name = "harbor_rss.update_feed"
          /\ outbox[1].feed_id = f.id
          /\ outbox[1].feed[1].storys # <<>>
    /\ Mappings(feed_url_map) = {<<UrlA, UrlB>>, <<UrlB, UrlB>>}

(* C2: a save_feed_creation_result without a feed payload for an existing
   FeedCreation commits that FeedCreation as ERROR with the messages joined by
   a blank line, adds the one FeedUrlMap entry requested url -> NOT_FOUND,
   creates no Feed, UserFeed or Story, and returns without sending anything. *)
C2_Committed(h) ==
    LET a == handler[h].args
        maps == NewRows(feed_url_map, feed_url_map')
    IN  (handler[h].name = "save_feed_creation_result" /\ a.feed = <<>>
         /\ Commits(h)) =>
            /\ \E r \in feed_creation' :
                  /\ r.id = a.feed_creation_id
                  /\ r.status = ERROR
                  /\ Len(r.message) = 2 * Len(a.messages) - 1
                  /\ \A i \in 1..Len(a.messages) : r.message[2 * i - 1] = a.messages[i]
                  /\ \A i \in 1..(Len(a.messages) - 1) : r.message[2 * i] = "\n\n"
                  /\ Mappings(maps) = {<<r.url, NOT_FOUND>>}
            /\ Cardinality(maps) = 1
            /\ \A r \in feed_url_map : r \in feed_url_map'
            /\ feed' = feed
            /\ user_feed' = user_feed
            /\ story' = story
            /\ handler'[h].pc = "done"

C2_Silent(h) ==
    (handler[h].name = "save_feed_creation_result" /\ handler[h].args.feed = <<>>
     /\ Acts(h)) =>
        /\ outbox' = outbox
        /\ handler'[h].pc # "send"

C2_CreationResultWithoutFeed ==
    [][\A h \in Handlers : C2_Committed(h) /\ C2_Silent(h)]_vars

(* the failure reported for FeedCreation 2 was saved: nothing but the
   FeedCreation and the NOT_FOUND mapping changed *)
C2_Witness ==
    /\ \E r \in feed_creation :
          /\ r.id = 2
          /\ r.status = ERROR
          /\ r.message = <<"dns error", "\n\n", "no feed">>
    /\ Mappings(feed_url_map) = {<<UrlB, NOT_FOUND>>}
    /\ feed = {}
    /\ user_feed = {}
    /\ outbox = <<>>
    /\ \E h \in Handlers :
          handler[h].name = "save_feed_creation_result" /\ handler[h].pc = "done"

(* C3: no two Story rows have the same feed_id and unique_id, whatever
   update_feed handlers ran and however they overlapped. *)
C3_StoryKeyUnique ==
    \A a, b \in story :
        a.id # b.id => ~(a.feed_id = b.feed_id /\ a.unique_id = b.unique_id)

(* two update_feed handlers of the same feed raced on a new story: one of them
   was rejected by the store, and the feed holds the story once *)
C3_Witness ==
    /\ \E h \in Handlers :
          handler[h].name = "update_feed" /\ handler[h].err = "IntegrityError"
    /\ \E h \in Handlers :
          handler[h].name = "update_feed" /\ handler[h].tx = "committed"
    /\ Cardinality(story) >= 2

(* the incoming batch of handler h repeats what is stored for its feed *)
IsReplay(h) ==
    \A i \in 1..Len(handler[h].args.feed[1].storys) :
        \E r \in Visible(story, handler[h].w.story) :
            /\ r.feed_id = handler[h].feed[1].id
            /\ r.unique_id = handler[h].args.feed[1].storys[i].unique_id
            /\ r.content_hash_base64
                  = handler[h].args.feed[1].storys[i].content_hash_base64

(* C4: an update_feed whose batch has the unique_ids and content hashes of
   stories already stored for that feed modifies nothing: no Story row is
   written and no fetch_story message is sent. *)
C4_Reconciled(h) ==
    (Step(h, "update_feed", "storys") /\ Proceeds(h) /\ IsReplay(h)) =>
        /\ handler'[h].modified_storys = <<>>
        /\ handler'[h].w.story = {}
        /\ handler'[h].pc = "commit"
        /\ seq'.story = seq.story

C4_NothingSaved(h) ==
    (handler[h].name = "update_feed" /\ handler[h].modified_storys = <<>>
     /\ handler[h].w.story = {} /\ Commits(h)) =>
        /\ story' = story
        /\ outbox' = outbox
        /\ handler'[h].pc = "done"

C4_ReplayModifiesNothing ==
    [][\A h \in Handlers : C4_Reconciled(h) /\ C4_NothingSaved(h)]_vars

(* the batch <<u1/h1>> was replayed on feed 1, which holds u1 with hash h1:
   the handler is through and nothing was sent *)
C4_Witness ==
    /\ \E h \in Handlers :
          /\ handler[h].name = "update_feed"
          /\ handler[h].pc = "done"
          /\ handler[h].tx = "committed"
    /\ \A h \in Handlers : handler[h].name \in {"update_feed", "idle"}
    /\ \A h \in Handlers : handler[h].pc \in {"done", "idle"}
    /\ story = {NewStory(1, 1, StoryItem("u1", "h1"))}
    /\ outbox = <<>>

(* the unique_ids of handler h's batch that its feed lacks and another feed has *)
ToReallocate(h) ==
    {u \in {handler[h].args.feed[1].storys[i].unique_id :
                i \in 1..Len(handler[h].args.feed[1].storys)} :
        /\ ~\E r \in Visible(story, handler[h].w.story) :
               r.feed_id = handler[h].feed[1].id /\ r.unique_id = u
        /\ \E r \in Visible(story, handler[h].w.story) :
               r.feed_id # handler[h].feed[1].id /\ r.unique_id = u}

(* C5: a story of the batch that the handler's feed B lacks and feed A owns is
   handed over: the existing row is written with feed B, no row is inserted for
   it, after the commit it is B's only story of that unique_id and no longer
   A's, and num_reallocate counts one for each such story. *)
C5_Reconciled(h) ==
    (Step(h, "update_feed", "storys") /\ Proceeds(h)) =>
        /\ handler'[h].num_reallocate = Cardinality(ToReallocate(h))
        /\ \A u \in ToReallocate(h) :
              \E r \in handler'[h].w.story :
                  /\ r.unique_id = u
                  /\ r.feed_id = handler[h].feed[1].id
                  /\ \E old \in story : old.id = r.id /\ old.feed_id # r.feed_id
                  /\ \A x \in handler'[h].w.story : x.unique_id = u => x = r

C5_Committed(h) ==
    (handler[h].name = "update_feed" /\ Commits(h)) =>
        \A r \in handler[h].w.story :
            (\E old \in story : old.id = r.id /\ old.feed_id # r.feed_id) =>
                /\ r \in story'
                /\ \A x \in story' :
                      x.unique_id = r.unique_id /\ x.feed_id = r.feed_id => x = r
                /\ \A old \in story :
                      old.id = r.id =>
                          ~\E x \in story' :
                              /\ x.id = r.id
                              /\ x.feed_id = old.feed_id
                /\ \A x \in NewRows(story, story') : x.unique_id # r.unique_id

C5_Reallocation ==
    [][\A h \in Handlers : C5_Reconciled(h) /\ C5_Committed(h)]_vars

(* feed 1's story u1 was taken in by an update_feed of feed 2 *)
C5_Witness ==
    /\ \E h \in Handlers :
          handler[h].name = "update_feed" /\ handler[h].tx = "committed"
    /\ \E r \in story : r.id = 1 /\ r.unique_id = "u1" /\ r.feed_id = 2
    /\ ~\E r \in story : r.unique_id = "u1" /\ r.feed_id = 1

(* C6: however many save_feed_creation_result handlers run for one requester
   and one feed, one after another or overlapping, there is at most one
   UserFeed of that user_id and feed_id, and a handler that meets the link goes
   on without an error. *)
C6_UserFeedOnceWithoutError ==
    /\ \A a, b \in user_feed :
          (a.user_id = b.user_id /\ a.feed_id = b.feed_id) => a = b
    /\ \A h \in Handlers :
          ~(handler[h].name = "save_feed_creation_result"
            /\ handler[h].err = "IntegrityError")

HandlerNames ==
    {"update_feed_creation_status", "save_feed_creation_result", "update_feed",
     "update_story", "update_story_images"}

(* C7: a message is sent only by a handler whose transaction has committed,
   and only by a save_feed_creation_result that had a feed payload (update_feed)
   or by an update_feed (fetch_story); a handler whose transaction is open or
   rolled back, and the no-payload path, send nothing. *)
C7_SendAfterCommit ==
    [][/\ outbox' # outbox =>
            \E h \in Handlers :
                /\ Acts(h)
                /\ handler[h].tx = "committed"
                /\ \/ /\ handler[h].name = "save_feed_creation_result"
                      /\ handler[h].args.feed # <<>>
                      /\ outbox'[Len(outbox')].name = "harbor_rss.update_feed"
                   \/ /\ handler[h].name = "update_feed"
                      /\ outbox'[Len(outbox')].name = "worker_rss.fetch_story"
       /\ \A h \in Handlers :
            (Acts(h) /\ handler'[h].tx # "committed") => outbox' = outbox
       /\ \A h \in Handlers :
            (Acts(h) /\ handler[h].tx # "committed") => outbox' = outbox
      ]_vars

(* both kinds of message were sent, each by a handler that had committed *)
C7_Witness ==
    /\ \E i \in 1..Len(outbox) : outbox[i].name = "harbor_rss.update_feed"
    /\ \E i \in 1..Len(outbox) : outbox[i].name = "worker_rss.fetch_story"
    /\ \A h \in Handlers : handler[h].pc = "done" /\ handler[h].tx = "committed"

(* C8: a handler that fails - the FeedCreation, Feed or Story it names does
   not exist, the store rejects a write, or a statement raises after earlier
   writes of the block - leaves every table as it was: the writes of a handler
   reach the tables in the one step that commits its block, and in no other. *)
C8_AtomicHandlers ==
    [][\A h \in Handlers :
          /\ (Acts(h) /\ ~Commits(h)) => UNCHANGED tables
          /\ (Acts(h) /\ handler'[h].pc = "failed") =>
                /\ handler'[h].tx = "rolledback"
                /\ handler'[h].w = EmptyWrites
          /\ handler[h].pc = "failed" => ~Acts(h)
      ]_vars

(* a save_feed_creation_result failed after it had issued a FeedUrlMap insert
   (the id sequence moved) and an update_story failed too: no row changed *)
C8_Witness ==
    /\ \E h \in Handlers :
          /\ handler[h].name = "save_feed_creation_result"
          /\ handler[h].err \in {"DatabaseError", "IntegrityError"}
    /\ \E h \in Handlers :
          /\ handler[h].name = "update_story"
          /\ handler[h].err \in {"DatabaseError", "DoesNotExist"}
    /\ seq.feed_url_map > 0
    /\ feed_url_map = {}
    /\ user_feed = {}
    /\ \A r \in feed_creation : r.status = PENDING /\ r.message = <<>>
    /\ \A r \in story : r.content = Content0

(* C9: a FeedCreation that is READY or ERROR keeps that status for as long as
   it exists. *)
C9_TerminalStatusKept ==
    [][\A r \in feed_creation :
          r.status \in {READY, ERROR} =>
              \A r2 \in feed_creation' : r2.id = r.id => r2.status = r.status
      ]_vars

(* sweep k takes this step *)
SweepActs(k) == sweep'[k] # sweep[k]

Age(r) == now - r.dt_updated

(* the retry steps of a sweep: each query selects the FeedCreations of its
   status that are older than its window, each write sets exactly the selected
   ones that are still there to PENDING and touches nothing else *)
C10_Retry(k) ==
    /\ (SweepStep(k, "query_updating") /\ SweepActs(k)) =>
          /\ sweep'[k].feed_creation_ids =
                {r.id : r \in {x \in feed_creation :
                                  x.status = UPDATING /\ Age(x) > 10 * 60}}
          /\ UNCHANGED <<tables, outbox>>
    /\ (SweepStep(k, "query_pending") /\ SweepActs(k)) =>
          /\ sweep'[k].feed_creation_ids =
                {r.id : r \in {x \in feed_creation :
                                  x.status = PENDING /\ Age(x) > 30 * 60}}
          /\ UNCHANGED <<tables, outbox>>
    /\ ((SweepStep(k, "retry_updating") \/ SweepStep(k, "retry_pending"))
        /\ SweepActs(k)) =>
          /\ \A r \in feed_creation :
                IF r.id \in sweep[k].feed_creation_ids
                THEN [r EXCEPT !.status = PENDING] \in feed_creation'
                ELSE r \in feed_creation'
          /\ Ids(feed_creation') = Ids(feed_creation)
          /\ UNCHANGED <<feed, user_feed, feed_url_map, story, outbox>>

(* C10 (amended): a sweep first deletes every FeedCreation stored more than
   2 hours ago, whatever its status; its retry steps then reset to PENDING
   every FeedCreation found UPDATING and older than 10 minutes, or PENDING and
   older than 30 minutes, leave the younger ones untouched, send no message and
   change no Feed, Story, UserFeed or FeedUrlMap. *)
C10_SweepRetriesWhatIsLeft ==
    [][\A k \in Sweeps :
          /\ C10_Retry(k)
          /\ (SweepStep(k, "delete") /\ SweepActs(k)) =>
                /\ feed_creation' =
                      {r \in feed_creation : now - r.dt_created <= 2 * 60 * 60}
                /\ UNCHANGED <<feed, user_feed, feed_url_map, story, outbox>>
      ]_vars

(* with no handler involved, the sweep has reset FeedCreation 2 (UPDATING for
   15 minutes) and left FeedCreation 1 (UPDATING for 5 minutes) as it was *)
C10_Witness ==
    /\ \A h \in Handlers : handler[h].pc = "idle"
    /\ sweep[1].pc \in {"query_pending", "retry_pending", "done"}
    /\ \E r \in feed_creation : r.id = 2 /\ r.status = PENDING /\ Age(r) = 15 * 60
    /\ \E r \in feed_creation : r.id = 1 /\ r.status = UPDATING /\ Age(r) = 5 * 60
    /\ outbox = <<>>

(* C10: a sweep resets to PENDING every FeedCreation that is UPDATING and
   older than 10 minutes or PENDING and older than 30 minutes - no step of the
   sweep drops such a FeedCreation - and leaves the younger ones untouched,
   sending nothing and changing no other table. *)
C10_SweepRetriesEveryStuck ==
    [][\A k \in Sweeps :
          /\ C10_Retry(k)
          /\ SweepActs(k) =>
                \A r \in feed_creation :
                    (\/ r.status = UPDATING /\ Age(r) > 10 * 60
                     \/ r.status = PENDING /\ Age(r) > 30 * 60) =>
                        HasRow(feed_creation', r.id)
      ]_vars

----------------------------------------------------------------------------

(* the FeedCreations a step removes *)
Deleted == {r \in feed_creation : ~HasRow(feed_creation', r.id)}

(* C11 (amended): the cleanup step of the sweep deletes exactly the
   FeedCreations stored more than 2 hours ago, whatever their status - a
   PENDING or UPDATING one of that age is deleted, not retried - keeps every
   younger one as it is, and changes no Feed and no Story. *)
C11_CleanupDeletesByAgeAlone ==
    [][\A k \in Sweeps :
          (SweepStep(k, "delete") /\ SweepActs(k)) =>
              /\ Deleted = {r \in feed_creation : now - r.dt_created > 2 * 60 * 60}
              /\ feed_creation' \subseteq feed_creation
              /\ UNCHANGED <<feed, story>>
      ]_vars

(* the cleanup of the first sweep has removed FeedCreation 1 and kept
   FeedCreation 2, which is 15 minutes old *)
C11_Witness ==
    /\ sweep[1].pc = "query_updating"
    /\ sweep[2].pc = "idle"
    /\ \A h \in Handlers : handler[h].pc = "idle"
    /\ ~HasRow(feed_creation, 1)
    /\ HasRow(feed_creation, 2)

(* C11: the cleanup step deletes only FeedCreations that are READY or ERROR
   and older than 2 hours, never one that is PENDING or UPDATING, and changes
   no Feed and no Story. *)
C11_CleanupDeletesOnlyTerminal ==
    [][\A k \in Sweeps :
          (SweepStep(k, "delete") /\ SweepActs(k)) =>
              /\ \A r \in Deleted : /\ r.status \in {READY, ERROR}
                                    /\ Age(r) > 2 * 60 * 60
              /\ UNCHANGED <<feed, story>>
      ]_vars

----------------------------------------------------------------------------

(* the FeedCreations whose status a step changes *)
StatusChanged ==
    {r \in feed_creation :
        \E r2 \in feed_creation' : r2.id = r.id /\ r2.status # r.status}

(* C12: the bulk write of a sweep resets only FeedCreations that satisfy the
   status and age test of its query when the write happens: one that a handler
   has meanwhile made READY, ERROR or UPDATING keeps its status. *)
C12_ResetOnlyWhatIsStillStuck ==
    [][\A k \in Sweeps :
          /\ (SweepStep(k, "retry_updating") /\ SweepActs(k)) =>
                \A r \in StatusChanged :
                    r.status = UPDATING /\ Age(r) > 10 * 60
          /\ (SweepStep(k, "retry_pending") /\ SweepActs(k)) =>
                StatusChanged = {}
      ]_vars

----------------------------------------------------------------------------

(* an image of that url is reported with a status that tells of a refused
   referer *)
Denied(images, url) ==
    \E i \in 1..Len(images) :
        /\ images[i].url = url
        /\ images[i].status \in {400, 401, 403, 404, REFERER_DENY, REFERER_NOT_ALLOWED}

(* content2 is content with the references to denied images, and nothing
   else, replaced by '/api/v1/image/' and the token of (url, story_url) *)
Rewritten(content, content2, images, story_url) ==
    /\ Len(content2) = Len(content)
    /\ \A i \in 1..Len(content) :
          IF content[i][1] = "img" /\ Denied(images, content[i][2])
          THEN content2[i] = <<"img", "/api/v1/image/">>
                                \o encode_image_url(content[i][2], story_url)
          ELSE content2[i] = content[i]

(* C13: update_story_images saves the story it read with exactly the
   references to images reported with a status of the referer-deny set
   replaced by '/api/v1/image/' and encode(image url, story url), every other
   reference and all other content as they were - the content as it was when
   no image is denied - and its commit stores that story. *)
C13_ImagesRewritten ==
    [][\A h \in Handlers :
          /\ (Step(h, "update_story_images", "save") /\ Proceeds(h)) =>
                LET a == handler[h].args
                    old == GetByPk(Visible(story, handler[h].w.story), a.story_id)
                    new == GetByPk(handler'[h].w.story, a.story_id)
                IN  /\ Rewritten(old.content, new.content, a.images, a.url)
                    /\ new = [old EXCEPT !.content = new.content]
                    /\ (~\E i \in 1..Len(a.images) : Denied(a.images, a.images[i].url))
                          => new = old
          /\ (handler[h].name = "update_story_images" /\ Commits(h)) =>
                /\ handler[h].w.story \subseteq story'
                /\ \A r \in story' :
                      r \in story \/ r \in handler[h].w.story
      ]_vars

(* story 1 is stored with its reference to x.png, reported 403, rewritten and
   its reference to y.png, reported 200, as it was *)
C13_Witness ==
    /\ \E h \in Handlers :
          /\ handler[h].name = "update_story_images"
          /\ handler[h].pc = "done"
    /\ \E r \in story :
          /\ r.id = 1
          /\ r.content = << <<"text", "hello">>,
                            <<"img", "/api/v1/image/", ImgX, StoryUrl>>,
                            <<"text", "and">>, <<"img", ImgY>> >>

----------------------------------------------------------------------------

(* C14: update_feed saves the Feed with every attribute the payload gives a
   value other than '' and None set to that value and every other attribute,
   its status among them, as it was; its commit stores that Feed. *)
C14_BlankKeepsKnownValue ==
    [][\A h \in Handlers :
          /\ (Step(h, "update_feed", "feed") /\ Proceeds(h)) =>
                LET a == handler[h].args
                    old == GetByPk(Visible(feed, handler[h].w.feed), a.feed_id)
                    new == GetByPk(handler'[h].w.feed, a.feed_id)
                IN  /\ \A k \in {"url", "title", "link"} :
                          new[k] = IF a.feed[1][k] \in {"", None}
                                   THEN old[k] ELSE a.feed[1][k]
                    /\ new.id = old.id
                    /\ new.status = old.status
                    /\ new.dt_updated = old.dt_updated
          /\ (handler[h].name = "update_feed" /\ Commits(h)) =>
                /\ handler[h].w.feed \subseteq feed'
                /\ \A r \in feed' : r \in feed \/ r \in handler[h].w.feed
      ]_vars

(* a committed update_feed gave Feed 1 the url of its payload and kept the
   title and the link, which the payload had as '' and None *)
C14_Witness ==
    /\ \E h \in Handlers :
          /\ handler[h].name = "update_feed"
          /\ handler[h].tx = "committed"
    /\ \E r \in feed :
          /\ r.id = 1
          /\ r.url = UrlB
          /\ r.title = "T0"
          /\ r.link = "http://a/"
          /\ r.status = READY

----------------------------------------------------------------------------

(* the stories update_feed keeps for fetching: a stored story that the batch
   brings with the hash it has, reallocated by the batch or not, is not among
   them *)
C15_Modified(h) ==
    (Step(h, "update_feed", "storys") /\ Proceeds(h)) =>
        LET rows == Visible(story, handler[h].w.story)
            storys == handler[h].args.feed[1].storys
            modified == handler'[h].modified_storys
        IN  \A r \in rows :
                (\A i \in 1..Len(storys) :
                    storys[i].unique_id = r.unique_id =>
                        storys[i].content_hash_base64 = r.content_hash_base64)
                => ~\E i \in 1..Len(modified) : modified[i].id = r.id

(* the handler sends the stories it kept, one message each with the id and
   the link of the story, after its commit and at no other step *)
C15_Sent(h) ==
    /\ (handler[h].name = "update_feed" /\ Commits(h)) =>
          IF handler[h].modified_storys = <<>>
          THEN handler'[h].pc = "done"
          ELSE /\ handler'[h].pc = "send"
               /\ handler'[h].modified_storys = handler[h].modified_storys
    /\ (Step(h, "update_feed", "send") /\ Acts(h)) =>
          LET s == Head(handler[h].modified_storys)
          IN  /\ outbox' = Append(outbox,
                     [name |-> "worker_rss.fetch_story", feed_id |-> 0,
                      feed |-> <<>>, url |-> s.link, story_id |-> ToString(s.id)])
              /\ IF Len(handler[h].modified_storys) = 1
                 THEN handler'[h].pc = "done"
                 ELSE /\ handler'[h].pc = "send"
                      /\ handler'[h].modified_storys = Tail(handler[h].modified_storys)
    /\ (handler[h].name = "update_feed" /\ handler[h].pc # "send" /\ Acts(h)) =>
          UNCHANGED outbox

(* C15: a committed update_feed sends exactly one fetch_story per story of
   modified_storys, with its id and its link, and no other: a story whose hash
   is unchanged, also one that was only reallocated, gets none, and nothing
   else sends a fetch_story. *)
C15_OneFetchPerModifiedStory ==
    [][/\ \A h \in Handlers : C15_Modified(h) /\ C15_Sent(h)
       /\ (/\ Len(outbox') > Len(outbox)
           /\ outbox'[Len(outbox')].name = "worker_rss.fetch_story") =>
              \E h \in Handlers : Step(h, "update_feed", "send") /\ Acts(h)
      ]_vars

(* story u1 was reallocated to Feed 2 with its hash unchanged and story u2 was
   saved twice by one batch: the only messages are the two for u2 *)
C15_Witness ==
    /\ \A h \in Handlers :
          handler[h].name = "update_feed" /\ handler[h].pc = "done"
    /\ \E r \in story :
          r.unique_id = "u1" /\ r.feed_id = 2 /\ r.content_hash_base64 = "h1"
    /\ \E r \in story :
          /\ r.unique_id = "u2"
          /\ Len(outbox) = 2
          /\ \A i \in 1..2 : /\ outbox[i].name = "worker_rss.fetch_story"
                             /\ outbox[i].story_id = ToString(r.id)
                             /\ outbox[i].url = r.link

----------------------------------------------------------------------------

(* a call handles a creation result with payload p for a FeedCreation there is *)
C16_Handling(p) ==
    \E h \in LiveHandlers :
        /\ Step(h, "save_feed_creation_result", "get")
        /\ handler[h].args.feed = Some(p)
        /\ HasRow(feed_creation, handler[h].args.feed_creation_id)

(* every story of payload p is stored under a Feed of the url of p, and a
   fetch_story for it has been sent *)
C16_Ingested(p) ==
    \A i \in 1..Len(p.storys) :
        \E f \in feed, r \in story :
            /\ f.url = p.url
            /\ r.feed_id = f.id
            /\ r.unique_id = p.storys[i].unique_id
            /\ \E j \in 1..Len(outbox) :
                  /\ outbox[j].name = "worker_rss.fetch_story"
                  /\ outbox[j].story_id = ToString(r.id)

(* C16: when every message sent is delivered, a creation result with a feed
   payload for an existing FeedCreation leads to every story of the payload
   stored under the resolved Feed and, the stories being new, to a fetch_story
   sent for each. *)
C16_ResultLeadsToStories ==
    \A p \in FeedDicts : C16_Handling(p) ~> C16_Ingested(p)

----------------------------------------------------------------------------

(* C17: update_feed_creation_status saves the FeedCreation it read with the
   status UPDATING, whatever status it is given and whatever the status was;
   its commit stores that row and changes no other FeedCreation and no Feed,
   UserFeed, FeedUrlMap or Story, and no step of it sends a message. *)
C17_StatusForcedToUpdating ==
    [][\A h \in Handlers :
          handler[h].name = "update_feed_creation_status" =>
              LET cid == handler[h].args.feed_creation_id
              IN  /\ (Step(h, "update_feed_creation_status", "save") /\ Proceeds(h)) =>
                        handler'[h].w.feed_creation =
                            {[GetByPk(feed_creation, cid) EXCEPT !.status = UPDATING]}
                  /\ Commits(h) =>
                        /\ \E r \in feed_creation' :
                              /\ r.id = cid
                              /\ r.status = UPDATING
                              /\ handler[h].w.feed_creation = {r}
                        /\ \A r \in feed_creation : r.id # cid => r \in feed_creation'
                        /\ \A r \in feed_creation' : r.id # cid => r \in feed_creation
                        /\ UNCHANGED <<feed, user_feed, feed_url_map, story>>
                  /\ Acts(h) => UNCHANGED outbox
                  /\ (Acts(h) /\ ~Commits(h)) => UNCHANGED tables
      ]_vars

(* FeedCreation 1 was made READY by a creation result and then UPDATING by a
   committed update_feed_creation_status; FeedCreation 2 is as it was *)
C17_Witness ==
    /\ \E h \in Handlers :
          /\ handler[h].name = "update_feed_creation_status"
          /\ handler[h].tx = "committed"
    /\ \E r \in feed_creation :
          r.id = 1 /\ r.status = UPDATING /\ r.message = <<"ok">>
    /\ \E r \in feed_creation :
          r.id = 2 /\ r.status = PENDING /\ r.message = <<>>
    /\ \E r \in user_feed : r.user_id = 1

----------------------------------------------------------------------------

(* C18: update_story saves the story it read with the link, the content and
   the summary of the message and its feed, unique_id and hash as they were;
   its commit stores that story, whatever an earlier update_story stored, and
   changes no other story; no step of it sends a message. *)
C18_StoryOverwritten ==
    [][\A h \in Handlers :
          handler[h].name = "update_story" =>
              LET a == handler[h].args
              IN  /\ (Step(h, "update_story", "save") /\ Proceeds(h)) =>
                        LET old == GetByPk(story, a.story_id)
                        IN  \E new \in handler'[h].w.story :
                              /\ handler'[h].w.story = {new}
                              /\ new.link = a.url
                              /\ new.content = a.content
                              /\ new.summary = a.summary
                              /\ new.id = old.id
                              /\ new.feed_id = old.feed_id
                              /\ new.unique_id = old.unique_id
                              /\ new.content_hash_base64 = old.content_hash_base64
                  /\ Commits(h) =>
                        /\ handler[h].w.story \subseteq story'
                        /\ \A r \in story : r.id # a.story_id => r \in story'
                        /\ \A r \in story' : r.id # a.story_id => r \in story
                  /\ Acts(h) => UNCHANGED outbox
      ]_vars

(* two update_story calls have committed one after the other, and story 1 has
   the link, the content and the summary of the second message *)
C18_Witness ==
    /\ \A h \in Handlers :
          handler[h].name = "update_story" /\ handler[h].tx = "committed"
    /\ \E r \in story :
          /\ r.id = 1
          /\ r.link = "http://s/u1?full=2"
          /\ r.content = Content2
          /\ r.summary = "full 2"
          /\ r.unique_id = "u1"
          /\ r.feed_id = 1

----------------------------------------------------------------------------

(* C19: when only save_feed_creation_result calls have run, overlapping or
   not, there is at most one Feed of a url, and the update_feed messages sent
   with payloads of one url carry one feed id. *)
C19_OneFeedPerUrl ==
    (\A h \in Handlers : handler[h].name \in {"idle", "save_feed_creation_result"})
    => /\ \A f1, f2 \in feed : f1.url = f2.url => f1.id = f2.id
       /\ \A i, j \in 1..Len(outbox) :
             (/\ outbox[i].name = "harbor_rss.update_feed"
              /\ outbox[j].name = "harbor_rss.update_feed"
              /\ outbox[i].feed[1].url = outbox[j].feed[1].url)
             => outbox[i].feed_id = outbox[j].feed_id

----------------------------------------------------------------------------

(* C20: when an update_story and an update_story_images for one story have
   both committed, overlapping or not, the story is what the two leave behind
   in one of the two orders: the link and the summary of the update_story
   message, and its content, rewritten for the denied images or not. *)
C20_NoLostStoryUpdate ==
    (\E h1, h2 \in Handlers :
        /\ handler[h1].name = "update_story"
        /\ handler[h1].tx = "committed"
        /\ handler[h2].name = "update_story_images"
        /\ handler[h2].tx = "committed")
    => \A r \in story :
          r.id = 1 =>
              \E u \in StoryUpdates, images \in ImageReports :
                  /\ r.link = u.url
                  /\ r.summary = u.summary
                  /\ r.content \in
                        {u.content,
                         ProcessorProcess(u.content, ProcessorParse(u.content),
                                          ImageReplaces(images, StoryUrl))}

====
